---- MODULE Spec2Model ----
(***************************************************************************)
(* A model of app.py, the Flask front end of the PaddleOCR web app:        *)
(*   - allowed_file and process_ocr_result, the two pure helpers;          *)
(*   - the three request handlers /ocr-batch, /ocr-batch-augmented, /ocr.  *)
(* Strings are sequences of one-character strings, so that joining,        *)
(* splitting and lower-casing are computed and not assumed.                *)
(***************************************************************************)
EXTENDS Integers, Sequences, FiniteSets, TLC

(* ---------------------------------------------------------------- bounds *)

\* Longest file name explored for allowed_file.
MaxNameLen == 5
\* Most fragments in one detection explored for process_ocr_result.
MaxFrags == 3

(* ------------------------------------------------------- character data *)

Upper == <<"A","B","C","D","E","F","G","H","I","J","K","L","M",
           "N","O","P","Q","R","S","T","U","V","W","X","Y","Z">>

LowerOf == <<"a","b","c","d","e","f","g","h","i","j","k","l","m",
             "n","o","p","q","r","s","t","u","v","w","x","y","z">>

\* str.lower() on one character.
LowerChar(c) ==
  IF \E k \in 1..Len(Upper) : Upper[k] = c
  THEN LowerOf[CHOOSE k \in 1..Len(Upper) : Upper[k] = c]
  ELSE c

\* str.lower()
Lower(s) == [k \in 1..Len(s) |-> LowerChar(s[k])]

\* ALLOWED_EXTENSIONS = {'png', 'jpg', 'jpeg'}
ALLOWED_EXTENSIONS ==
  { <<"p","n","g">>, <<"j","p","g">>, <<"j","p","e","g">> }

(* ----------------------------------------------------------- allowed_file *)

\* '.' in filename
HasDot(filename) == \E k \in 1..Len(filename) : filename[k] = "."

\* Position of the right-most '.', where rsplit('.', 1) cuts.
LastDot(filename) ==
  CHOOSE k \in 1..Len(filename) :
    /\ filename[k] = "."
    /\ \A m \in (k+1)..Len(filename) : filename[m] # "."

\* filename.rsplit('.', 1)[1]
RsplitExt(filename) == SubSeq(filename, LastDot(filename) + 1, Len(filename))

AllowedFileNoLower(filename) ==
  HasDot(filename) /\ RsplitExt(filename) \in ALLOWED_EXTENSIONS

\* allowed_file(filename)
allowed_file(filename) ==
  HasDot(filename) /\ Lower(RsplitExt(filename)) \in ALLOWED_EXTENSIONS

(* ------------------------------------------------------ process_ocr_result *)

\* "No text found."
NoTextFound ==
  <<"N","o"," ","t","e","x","t"," ","f","o","u","n","d",".">>

\* line_threshold = 18
line_threshold == 18

\* None, as PaddleOCR returns it for a page (or a whole call) without detections.
None == [none |-> TRUE, items |-> <<>>]

\* A Python list holding `items`.
List(items) == [none |-> FALSE, items |-> items]

\* Python truthiness of None or a list: `not v` is ~Truthy(v).
Truthy(v) == ~v.none /\ v.items # <<>>

\* Python's order on key tuples of one length: the first difference decides.
TupleLess(a, b) ==
  \E k \in 1..Len(a) : a[k] < b[k] /\ \A m \in 1..(k-1) : a[m] = b[m]

\* list.sort(key=...), keys[k] being the key of seq[k]: Python's sort is stable,
\* so the result is the one permutation that is ordered by the key and keeps
\* input order among equal keys.
StableSort(seq, keys) ==
  LET n == Len(seq)
      rank(j) == 1 + Cardinality({ m \in 1..n :
                        \/ TupleLess(keys[m], keys[j])
                        \/ (keys[m] = keys[j] /\ m < j) })
  IN [r \in 1..n |-> seq[CHOOSE j \in 1..n : rank(j) = r]]

\* str.join: the parts with `sep` between each two neighbours.
RECURSIVE Join(_, _)
Join(sep, parts) ==
  IF parts = <<>> THEN <<>>
  ELSE IF Len(parts) = 1 THEN parts[1]
  ELSE parts[1] \o sep \o Join(sep, Tail(parts))

\* One detection item [bounding_box, (text, confidence)] is kept as the three
\* box coordinates the code reads, x0 = box[0][0], y0 = box[0][1], y2 = box[2][1],
\* and its text. The entry appended to text_coordinates holds the text, x = x0 and
\* y = (y0 + y2) / 2; the model keeps yy = y0 + y2 = 2 * y, which orders and
\* differs exactly as y does (halving a float is exact), so that half-integer
\* anchors stay integers.
TextCoordinate(item) ==
  [text |-> item.text, yy |-> item.y0 + item.y2, x |-> item.x0]

\* The loop that fills text_coordinates.
TextCoordinates(items) == [k \in 1..Len(items) |-> TextCoordinate(items[k])]

SortTextCoordinatesUnstable(tc) ==
  LET rev == [k \in 1..Len(tc) |-> tc[Len(tc) + 1 - k]]
  IN StableSort(rev, [k \in 1..Len(rev) |-> <<rev[k].yy, rev[k].x>>])

\* text_coordinates.sort(key=lambda item: (item['y'], item['x']))
SortTextCoordinates(tc) ==
  StableSort(tc, [k \in 1..Len(tc) |-> <<tc[k].yy, tc[k].x>>])

Abs(n) == IF n < 0 THEN -n ELSE n

\* abs(current_item['y'] - prev_item['y']) <= line_threshold
SameLine(current_item, prev_item) ==
  Abs(current_item.yy - prev_item.yy) <= 2 * line_threshold

PrevItemFirst(current_line) == current_line[1]

\* prev_item = current_line[-1]
PrevItem(current_line) == current_line[Len(current_line)]

SortLineReversed(tc, current_line) ==
  StableSort(current_line,
             [k \in 1..Len(current_line) |-> <<0 - tc[current_line[k]].x>>])

\* current_line.sort(key=lambda x: x['x']). A line holds references to the
\* entries of text_coordinates: the model keeps their positions in it.
SortLine(tc, current_line) ==
  StableSort(current_line,
             [k \in 1..Len(current_line) |-> <<tc[current_line[k]].x>>])

\* ' '.join([item['text'] for item in current_line]), after the sort
JoinLine(tc, current_line) ==
  LET sorted == SortLine(tc, current_line)
  IN Join(<<" ">>, [k \in 1..Len(sorted) |-> tc[sorted[k]].text])

\* The state of the walk: text_coordinates (sorted), the loop index i, the open
\* line, the lines formatted so far and, as history, the members of each
\* formatted line in the order they were joined.
WalkInit(tc) ==
  [text_coordinates |-> tc, i |-> 1, current_line |-> <<1>>,
   formatted_lines |-> <<>>, line_members |-> <<>>]

\* sort the open line, format it and append it to formatted_lines
CloseLine(w) ==
  [w EXCEPT
     !.formatted_lines = Append(@, JoinLine(w.text_coordinates, w.current_line)),
     !.line_members = Append(@, SortLine(w.text_coordinates, w.current_line))]

\* One iteration of `for i in range(1, len(text_coordinates))`.
WalkStep(w) ==
  LET tc == w.text_coordinates
      prev_item == PrevItem(w.current_line)
      current_item == w.i + 1
  IN IF SameLine(tc[current_item], tc[prev_item])
     THEN [w EXCEPT !.current_line = Append(@, current_item), !.i = @ + 1]
     ELSE [CloseLine(w) EXCEPT !.current_line = <<current_item>>, !.i = @ + 1]

WalkDone(w) == w.i >= Len(w.text_coordinates)

RECURSIVE WalkAll(_)
WalkAll(w) == IF WalkDone(w) THEN w ELSE WalkAll(WalkStep(w))

WalkFinishNoClose(w) == w

\* `if current_line:` after the loop (the open line is never empty)
WalkFinish(w) ==
  IF w.current_line # <<>> THEN [CloseLine(w) EXCEPT !.current_line = <<>>] ELSE w

\* '\n'.join(formatted_lines)
JoinLines(formatted_lines) == Join(<<"\n">>, formatted_lines)

NoDetectionOnlyNone(result) == ~Truthy(result)

\* `if not result or not result[0]`
NoDetection(result) == ~Truthy(result) \/ ~Truthy(result.items[1])

\* process_ocr_result(result)
process_ocr_result(result) ==
  IF NoDetection(result) THEN NoTextFound
  ELSE LET tc == SortTextCoordinates(TextCoordinates(result.items[1].items))
       IN IF tc = <<>> THEN <<>>
          ELSE JoinLines(WalkFinish(WalkAll(WalkInit(tc))).formatted_lines)

(* ------------------------------------------------------------- the state *)

VARIABLES
  \* a call of allowed_file: its argument, its position, its return value
  filename, file_pc, allowed,
  \* a call of process_ocr_result: its argument, its position, the state of
  \* its walk, its return value
  result, ocr_pc, walk, formatted_text,
  \* the server: one record per request thread, whether UPLOAD_FOLDER exists,
  \* the files in it,
  \* the uuids drawn so far, and the threads inside ocr_model.ocr
  thread, upload_folder, disk, next_uuid, in_detector

vars == <<filename, file_pc, allowed, result, ocr_pc, walk, formatted_text,
          thread, upload_folder, disk, next_uuid, in_detector>>

file_vars == <<filename, file_pc, allowed>>

ocr_vars == <<result, ocr_pc, walk, formatted_text>>

server_vars == <<thread, upload_folder, disk, next_uuid, in_detector>>

\* The walk before process_ocr_result has built text_coordinates.
NoWalk ==
  [text_coordinates |-> <<>>, i |-> 0, current_line |-> <<>>,
   formatted_lines |-> <<>>, line_members |-> <<>>]

\* A request thread that has not received its request.
IdleThread ==
  [pc |-> "idle", request |-> [endpoint |-> "none", has_field |-> FALSE, files |-> <<>>],
   idx |-> 0, results |-> <<>>, filepath |-> [uuid |-> 0, filename |-> <<>>],
   exists |-> FALSE, original_text |-> <<>>, pending |-> [status |-> 0],
   response |-> [status |-> 0], hist |-> <<>>]

FileIdle == filename = <<>> /\ file_pc = "idle" /\ allowed = FALSE

OcrIdle == result = None /\ ocr_pc = "idle" /\ walk = NoWalk /\ formatted_text = <<>>

ServerIdle ==
  /\ thread = <<>> /\ upload_folder = FALSE
  /\ disk = {} /\ next_uuid = 1 /\ in_detector = {}

(* ------------------------------------------- allowed_file as a state machine *)

NameAlphabet == {".", "p", "n", "g", "j", "e", "P"}

NamesUpTo(n) == UNION { [1..k -> NameAlphabet] : k \in 0..n }

InitFile ==
  /\ filename \in NamesUpTo(MaxNameLen)
  /\ file_pc = "call"
  /\ allowed = FALSE
  /\ OcrIdle /\ ServerIdle

CallAllowedFile ==
  /\ file_pc = "call"
  /\ allowed' = allowed_file(filename)
  /\ file_pc' = "returned"
  /\ UNCHANGED <<filename, ocr_vars, server_vars>>

NextFile == CallAllowedFile

SpecFile == InitFile /\ [][NextFile]_vars

(* ------------------------------------- process_ocr_result as a state machine *)

Frag(x0, y0, y2, text) == [x0 |-> x0, y0 |-> y0, y2 |-> y2, text |-> text]

\* The fragments detections are drawn from. Anchors (y, x): (100, 50), (102, 120),
\* (140, 50), (115, 10), (130, 50) with an empty text, (118, 50), (118.5, 120),
\* and a second fragment at (100, 50).
Frags ==
  { Frag(50, 90, 110, <<"H","i">>), Frag(120, 92, 112, <<"W">>),
    Frag(50, 130, 150, <<"F">>),   Frag(10, 105, 125, <<"d">>),
    Frag(50, 120, 140, <<>>),      Frag(50, 108, 128, <<"b"," ">>),
    Frag(120, 108, 129, <<"a">>),  Frag(50, 90, 110, <<"c">>) }

ItemsUpTo(n) == UNION { [1..k -> Frags] : k \in 1..n }

\* What ocr_model.ocr may hand to process_ocr_result: None, an empty list, a
\* page that is None or empty, or one page of detection items.
Detections ==
  { None, List(<<>>), List(<<None>>), List(<<List(<<>>)>>) }
    \cup { List(<<List(items)>>) : items \in ItemsUpTo(MaxFrags) }

InitOcr ==
  /\ result \in Detections
  /\ ocr_pc = "call"
  /\ walk = NoWalk
  /\ formatted_text = <<>>
  /\ FileIdle /\ ServerIdle

\* Lines 43-68: the guard, building and sorting text_coordinates, opening the
\* first line.
OcrEnter ==
  /\ ocr_pc = "call"
  /\ IF NoDetection(result)
     THEN /\ formatted_text' = NoTextFound
          /\ ocr_pc' = "returned"
          /\ UNCHANGED walk
     ELSE LET tc == SortTextCoordinates(TextCoordinates(result.items[1].items))
          IN IF tc = <<>>
             THEN /\ formatted_text' = <<>>
                  /\ ocr_pc' = "returned"
                  /\ walk' = [NoWalk EXCEPT !.text_coordinates = tc]
             ELSE /\ walk' = WalkInit(tc)
                  /\ ocr_pc' = "loop"
                  /\ UNCHANGED formatted_text
  /\ UNCHANGED <<result, file_vars, server_vars>>

\* Lines 69-78: one iteration of the loop.
OcrLoop ==
  /\ ocr_pc = "loop"
  /\ ~WalkDone(walk)
  /\ walk' = WalkStep(walk)
  /\ UNCHANGED <<result, ocr_pc, formatted_text, file_vars, server_vars>>

\* Lines 80-84: the last line and the return.
OcrReturn ==
  /\ ocr_pc = "loop"
  /\ WalkDone(walk)
  /\ walk' = WalkFinish(walk)
  /\ formatted_text' = JoinLines(walk'.formatted_lines)
  /\ ocr_pc' = "returned"
  /\ UNCHANGED <<result, file_vars, server_vars>>

NextOcr == OcrEnter \/ OcrLoop \/ OcrReturn

SpecOcr == InitOcr /\ [][NextOcr]_vars

(* ------------------------------------------------------------ the server *)

\* Most files in one batch request.
MaxFiles == 3

\* The file names requests carry: none (an empty file input), a.png, b.gif.
EmptyName == <<>>

PngName == <<"a", ".", "p", "n", "g">>

GifName == <<"b", ".", "g", "i", "f">>

FileNames == {EmptyName, PngName, GifName}

\* 'Unknown'
Unknown == <<"U", "n", "k", "n", "o", "w", "n">>

\* A werkzeug FileStorage: only its filename decides anything in app.py; what
\* its bytes lead to is the outcome of save, of the Detector and of OpenCV.
File(name) == [filename |-> name]

\* `if file`: a FileStorage is truthy exactly when its filename is not empty.
FileTruthy(file) == file.filename # <<>>

FileLists(n) == UNION { [1..k -> {File(name) : name \in FileNames}] : k \in 1..n }

\* A request: its endpoint, whether request.files has the endpoint's field
\* ('files' or 'file'), and the files under it (at least one when it is there).
Request(endpoint, has_field, files) ==
  [endpoint |-> endpoint, has_field |-> has_field, files |-> files]

BatchRequests(n) ==
  { Request(e, FALSE, <<>>) : e \in {"batch", "augmented"} }
    \cup { Request(e, TRUE, fs) : e \in {"batch", "augmented"}, fs \in FileLists(n) }

SingleRequests ==
  { Request("single", FALSE, <<>>) }
    \cup { Request("single", TRUE, <<File(name)>>) : name \in FileNames }

\* What ocr_model.ocr returns to a handler when it does not raise: a page
\* without detections, or a page with two fragments on one line.
DetectorReturns ==
  { List(<<None>>),
    List(<<List(<< Frag(120, 92, 112, <<"W">>), Frag(50, 90, 110, <<"H","i">>) >>)>>) }

\* str(e) of the exceptions the external calls raise.
SaveError == "OSError on save"

DetectorError == "DetectorError"

TransformError == "cv2.error"

JsonErrorAs200(status, message) == [status |-> 200, error |-> message]

\* jsonify(...) and the status the handler returns with it.
JsonError(status, message) == [status |-> status, error |-> message]

JsonResults(results) == [status |-> 200, results |-> results]

JsonText(text) == [status |-> 200, text |-> text]

\* An exception that leaves the handler: Flask answers 500.
Unhandled == [status |-> 500, unhandled |-> TRUE]

\* The per-item dictionaries appended to results.
ErrorOutcome(name, message) ==
  [filename |-> name, text |-> <<>>, status |-> "error", error |-> message]

SuccessOutcomeLeaky(name, text) ==
  [filename |-> name,
   text |-> IF \E r \in DOMAIN thread : \E k \in 1..Len(thread[r].results) :
                 thread[r].results[k].status = "error"
            THEN <<>> ELSE text,
   status |-> "success"]

SuccessOutcome(name, text) ==
  [filename |-> name, text |-> text, status |-> "success"]

IsSpace(c) == c \in {" ", "\n"}

WordCountZeroForSentinel(text) ==
  IF text = NoTextFound THEN 0
  ELSE Cardinality({ k \in 1..Len(text) :
                       ~IsSpace(text[k]) /\ (k = 1 \/ IsSpace(text[k-1])) })

\* len(text.split()): the number of maximal runs of non-whitespace characters.
WordCount(text) ==
  Cardinality({ k \in 1..Len(text) :
                  ~IsSpace(text[k]) /\ (k = 1 \/ IsSpace(text[k-1])) })

AugmentedOutcomeSwapped(name, original_text, augmented_text) ==
  [filename |-> name, status |-> "success",
   text |-> original_text, original_text |-> augmented_text,
   variants |-> << [name |-> "Original", word_count |-> WordCount(original_text)],
                   [name |-> "Grayscale + Threshold",
                    word_count |-> WordCount(augmented_text)] >>]

AugmentedOutcome(name, original_text, augmented_text) ==
  [filename |-> name, status |-> "success",
   text |-> augmented_text, original_text |-> original_text,
   variants |-> << [name |-> "Original", word_count |-> WordCount(original_text)],
                   [name |-> "Grayscale + Threshold",
                    word_count |-> WordCount(augmented_text)] >>]

\* The file the loop is at.
CurrentFile(t) == t.request.files[t.idx]

\* History of one item, kept beside the handler's own state: its name, its temp
\* path, how often file.save was called for it, how often that created the file,
\* how often os.remove removed it, how often the Detector was invoked for it, and
\* what the external calls returned to it.
ItemHistory(name, path) ==
  [name |-> name, path |-> path, saves |-> 0, created |-> 0, removed |-> 0,
   detects |-> 0, events |-> <<>>, finished |-> FALSE]

NoPath == [uuid |-> 0, filename |-> <<>>]

\* What an external call did, as the history keeps it.
SaveEvent(outcome) == [call |-> "save", outcome |-> outcome, value |-> None]

TransformEvent(outcome) == [call |-> "transform", outcome |-> outcome, value |-> None]

NoteEvent(t, event) ==
  [t EXCEPT !.hist[Len(t.hist)].events = Append(@, event)]

Note(t, field, event) ==
  [NoteEvent(t, event) EXCEPT !.hist[Len(t.hist)][field] = @ + 1]

Finished(t) == [t EXCEPT !.hist[Len(t.hist)].finished = TRUE]

\* thread[r] becomes t.
Set(r, t) == thread' = [thread EXCEPT ![r] = t]

Respond(t, response) == [t EXCEPT !.response = response, !.pc = "done"]

\* A request arrives at an idle thread.
Receive(r, requests) ==
  /\ thread[r].pc = "idle"
  /\ \E req \in requests :
       Set(r, [thread[r] EXCEPT
                 !.request = req,
                 !.pc = IF req.endpoint = "single" THEN "single_check"
                        ELSE "batch_check"])
  /\ UNCHANGED <<upload_folder, disk, next_uuid, in_detector, file_vars, ocr_vars>>

BatchCheckAnyEmpty(r) ==
  LET t == thread[r]
      files == t.request.files
  IN /\ t.pc = "batch_check"
     /\ IF ~t.request.has_field
        THEN /\ Set(r, Respond(t, JsonError(400, "No files part in the request")))
             /\ UNCHANGED upload_folder
        ELSE IF files = <<>> \/ \E k \in 1..Len(files) : files[k].filename = <<>>
        THEN /\ Set(r, Respond(t, JsonError(400, "No files selected for uploading")))
             /\ UNCHANGED upload_folder
        ELSE /\ Set(r, [t EXCEPT !.results = <<>>, !.idx = 1, !.pc = "loop"])
             /\ upload_folder' = TRUE
     /\ UNCHANGED <<disk, next_uuid, in_detector, file_vars, ocr_vars>>

\* Lines 96-107 and 142-153: the request-level checks, results = [], makedirs.
BatchCheck(r) ==
  LET t == thread[r]
      files == t.request.files
  IN /\ t.pc = "batch_check"
     /\ IF ~t.request.has_field
        THEN /\ Set(r, Respond(t, JsonError(400, "No files part in the request")))
             /\ UNCHANGED upload_folder
        ELSE IF files = <<>> \/ \A k \in 1..Len(files) : files[k].filename = <<>>
        THEN /\ Set(r, Respond(t, JsonError(400, "No files selected for uploading")))
             /\ UNCHANGED upload_folder
        ELSE /\ Set(r, [t EXCEPT !.results = <<>>, !.idx = 1, !.pc = "loop"])
             /\ upload_folder' = TRUE
     /\ UNCHANGED <<disk, next_uuid, in_detector, file_vars, ocr_vars>>

ItemAllowedAnyExtension(file) == FileTruthy(file) /\ HasDot(file.filename)

\* `file and allowed_file(file.filename)`
ItemAllowed(file) == FileTruthy(file) /\ allowed_file(file.filename)

\* Lines 131 and 200: the outcome of an item that is not allowed.
NotAllowedOutcome(file) ==
  ErrorOutcome(IF FileTruthy(file) THEN file.filename ELSE Unknown,
               "File type not allowed")

\* f"{uuid.uuid4()}_{file.filename}" under UPLOAD_FOLDER: a uuid4 is taken to
\* be fresh, so the model draws the next unused number.
UniquePath(uuid, name) == [uuid |-> uuid, filename |-> name]

\* os.path.join(app.config['UPLOAD_FOLDER'], file.filename), line 221: the
\* client's file name as it is.
PlainPath(name) == [uuid |-> 0, filename |-> name]

\* Lines 109-112 and 130-131 (155-158 and 199-200): the loop takes its next
\* file; a file that is not allowed gets its error outcome at once.
BatchNext(r) ==
  LET t == thread[r]
      file == CurrentFile(t)
  IN /\ t.pc = "loop"
     /\ t.idx <= Len(t.request.files)
     /\ IF ItemAllowed(file)
        THEN /\ Set(r, [t EXCEPT
                          !.filepath = UniquePath(next_uuid, file.filename),
                          !.hist = Append(@, ItemHistory(file.filename,
                                       UniquePath(next_uuid, file.filename))),
                          !.pc = "save"])
             /\ next_uuid' = next_uuid + 1
        ELSE /\ Set(r, [t EXCEPT
                          !.results = Append(@, NotAllowedOutcome(file)),
                          !.hist = Append(@, [ItemHistory(file.filename, NoPath)
                                                EXCEPT !.finished = TRUE]),
                          !.idx = @ + 1])
             /\ UNCHANGED next_uuid
     /\ UNCHANGED <<upload_folder, disk, in_detector, file_vars, ocr_vars>>

\* Lines 133 and 202: return jsonify({'results': results}).
BatchRespond(r) ==
  LET t == thread[r]
  IN /\ t.pc = "loop"
     /\ t.idx > Len(t.request.files)
     /\ Set(r, Respond(t, JsonResults(t.results)))
     /\ UNCHANGED <<upload_folder, disk, next_uuid, in_detector, file_vars, ocr_vars>>

ExceptClausePropagates(t, message) == Respond(t, Unhandled)

ExceptClauseNoAppend(t, message) == [t EXCEPT !.pc = "finally"]

ExceptClauseKeepsIdentity(t, message) ==
  [t EXCEPT !.results =
              Append(@, IF t.pc \in {"enhance", "in_ocr2"}
                        THEN [ErrorOutcome(CurrentFile(t).filename, message)
                                EXCEPT !.text = t.original_text]
                        ELSE ErrorOutcome(CurrentFile(t).filename, message)),
            !.pc = "finally"]

\* Lines 125-126 and 194-195: `except Exception as e` appends the item's error
\* outcome; the finally clause follows.
ExceptClause(t, message) ==
  [t EXCEPT !.results = Append(@, ErrorOutcome(CurrentFile(t).filename, message)),
            !.pc = "finally"]

\* What file.save may do: write the file, raise before creating it, or raise
\* after creating it (a write that fails half way).
SaveOutcomes == {"saved", "failed", "partial"}

\* Lines 115 and 161: file.save(filepath), inside the try block.
BatchSave(r) ==
  LET t == thread[r]
  IN /\ t.pc = "save"
     /\ \E outcome \in SaveOutcomes :
          LET noted == Note(t, "saves", SaveEvent(outcome))
              made == IF outcome = "failed" THEN noted
                      ELSE [noted EXCEPT !.hist[Len(t.hist)].created = @ + 1]
          IN /\ disk' = IF outcome = "failed" THEN disk ELSE disk \cup {t.filepath}
             /\ Set(r, IF outcome = "saved" THEN [made EXCEPT !.pc = "ocr"]
                       ELSE ExceptClause(made, SaveError))
     /\ UNCHANGED <<upload_folder, next_uuid, in_detector, file_vars, ocr_vars>>

\* Lines 209-221 and 234-235: the checks of /ocr, makedirs, the file path.
SingleCheck(r) ==
  LET t == thread[r]
      file == t.request.files[1]
  IN /\ t.pc = "single_check"
     /\ IF ~t.request.has_field
        THEN /\ Set(r, Respond(t, JsonError(400, "No file part in the request")))
             /\ UNCHANGED upload_folder
        ELSE IF file.filename = <<>>
        THEN /\ Set(r, Respond(t, JsonError(400, "No file selected for uploading")))
             /\ UNCHANGED upload_folder
        ELSE IF ItemAllowed(file)
        THEN /\ Set(r, [t EXCEPT
                          !.idx = 1,
                          !.filepath = PlainPath(file.filename),
                          !.hist = <<ItemHistory(file.filename,
                                                 PlainPath(file.filename))>>,
                          !.pc = "single_save"])
             /\ upload_folder' = TRUE
        ELSE /\ Set(r, Respond(t, JsonError(400, "File type not allowed")))
             /\ UNCHANGED upload_folder
     /\ UNCHANGED <<disk, next_uuid, in_detector, file_vars, ocr_vars>>

\* Line 222: file.save(filepath), before the try block: an exception of save
\* leaves the handler, and no finally clause runs.
SingleSave(r) ==
  LET t == thread[r]
  IN /\ t.pc = "single_save"
     /\ \E outcome \in SaveOutcomes :
          LET noted == Note(t, "saves", SaveEvent(outcome))
              made == IF outcome = "failed" THEN noted
                      ELSE [noted EXCEPT !.hist[Len(t.hist)].created = @ + 1]
          IN /\ disk' = IF outcome = "failed" THEN disk ELSE disk \cup {t.filepath}
             /\ Set(r, IF outcome = "saved" THEN [made EXCEPT !.pc = "ocr"]
                       ELSE Respond(Finished(made), Unhandled))
     /\ UNCHANGED <<upload_folder, next_uuid, in_detector, file_vars, ocr_vars>>

\* Lines 116, 166 and 225: the thread enters ocr_model.ocr(filepath, cls=False).
\* No lock is taken: any number of threads may be inside.
DetectorCall(r) ==
  LET t == thread[r]
  IN /\ t.pc = "ocr"
     /\ in_detector' = in_detector \cup {r}
     /\ Set(r, [t EXCEPT !.pc = "in_ocr"])
     /\ UNCHANGED <<upload_folder, disk, next_uuid, file_vars, ocr_vars>>

\* What a Detector call does: it raises, or it returns one of DetectorReturns.
Raise == [raised |-> TRUE, value |-> None]

DetectorOutcomes ==
  {Raise} \cup { [raised |-> FALSE, value |-> d] : d \in DetectorReturns }

DetectorEvent(out) ==
  [call |-> "detector", outcome |-> IF out.raised THEN "raised" ELSE "returned",
   value |-> out.value]

\* Lines 116-123, 166-167 and 225-230: ocr_model.ocr returns or raises, and the
\* handler goes on to its finally clause or, in augmented mode, to OpenCV.
DetectorReturn(r) ==
  LET t == thread[r]
  IN /\ t.pc = "in_ocr"
     /\ in_detector' = in_detector \ {r}
     /\ \E out \in DetectorOutcomes :
          LET noted == Note(t, "detects", DetectorEvent(out))
              name == CurrentFile(t).filename
          IN Set(r,
               IF t.request.endpoint = "single"
               THEN [noted EXCEPT
                       !.pending =
                         IF out = Raise
                         THEN JsonError(500, <<"An error occurred during OCR processing: ",
                                               DetectorError>>)
                         ELSE JsonText(process_ocr_result(out.value)),
                       !.pc = "finally"]
               ELSE IF out = Raise THEN ExceptClause(noted, DetectorError)
               ELSE IF t.request.endpoint = "batch"
               THEN [noted EXCEPT
                       !.results = Append(@, SuccessOutcome(name, process_ocr_result(out.value))),
                       !.pc = "finally"]
               ELSE [noted EXCEPT
                       !.original_text = process_ocr_result(out.value),
                       !.pc = "enhance"])
     /\ UNCHANGED <<upload_folder, disk, next_uuid, file_vars, ocr_vars>>

\* Lines 170-174: cv2.imread, cvtColor, threshold. imread gives None for a file
\* that is missing or no image, and cvtColor then raises.
Enhance(r) ==
  LET t == thread[r]
  IN /\ t.pc = "enhance"
     /\ \E ok \in (IF t.filepath \in disk THEN BOOLEAN ELSE {FALSE}) :
          Set(r, IF ok
                 THEN [NoteEvent(t, TransformEvent("enhanced")) EXCEPT !.pc = "ocr2"]
                 ELSE ExceptClause(NoteEvent(t, TransformEvent("raised")),
                                   TransformError))
     /\ UNCHANGED <<upload_folder, disk, next_uuid, in_detector, file_vars, ocr_vars>>

\* Line 178: the thread enters ocr_model.ocr(augmented_img, cls=False).
Detector2Call(r) ==
  LET t == thread[r]
  IN /\ t.pc = "ocr2"
     /\ in_detector' = in_detector \cup {r}
     /\ Set(r, [t EXCEPT !.pc = "in_ocr2"])
     /\ UNCHANGED <<upload_folder, disk, next_uuid, file_vars, ocr_vars>>

\* Lines 178-192: the second Detector call returns or raises.
Detector2Return(r) ==
  LET t == thread[r]
  IN /\ t.pc = "in_ocr2"
     /\ in_detector' = in_detector \ {r}
     /\ \E out \in DetectorOutcomes :
          LET noted == Note(t, "detects", DetectorEvent(out))
          IN Set(r, IF out = Raise THEN ExceptClause(noted, DetectorError)
                    ELSE [noted EXCEPT
                            !.results = Append(@, AugmentedOutcome(
                                           CurrentFile(t).filename, t.original_text,
                                           process_ocr_result(out.value))),
                            !.pc = "finally"])
     /\ UNCHANGED <<upload_folder, disk, next_uuid, file_vars, ocr_vars>>

\* Lines 128, 197 and 232: `if os.path.exists(filepath)` of the finally clause.
FinallyExists(r) ==
  LET t == thread[r]
  IN /\ t.pc = "finally"
     /\ Set(r, [t EXCEPT !.exists = (t.filepath \in disk), !.pc = "remove"])
     /\ UNCHANGED <<upload_folder, disk, next_uuid, in_detector, file_vars, ocr_vars>>

\* After the finally clause: the loop goes to its next file, /ocr returns what
\* its try block computed.
AfterFinally(t) ==
  IF t.request.endpoint = "single"
  THEN Respond(Finished(t), t.pending)
  ELSE [Finished(t) EXCEPT !.idx = @ + 1, !.pc = "loop"]

\* Lines 129, 198 and 233: os.remove(filepath) when the file was seen; it raises
\* FileNotFoundError, which leaves the handler, when the file is gone by now.
FinallyRemove(r) ==
  LET t == thread[r]
  IN /\ t.pc = "remove"
     /\ IF ~t.exists
        THEN Set(r, AfterFinally(t)) /\ UNCHANGED disk
        ELSE IF t.filepath \in disk
        THEN /\ disk' = disk \ {t.filepath}
             /\ Set(r, AfterFinally([t EXCEPT !.hist[Len(t.hist)].removed = @ + 1]))
        ELSE Set(r, Respond(Finished(t), Unhandled)) /\ UNCHANGED disk
     /\ UNCHANGED <<upload_folder, next_uuid, in_detector, file_vars, ocr_vars>>

InitServer(n) ==
  /\ thread = [r \in 1..n |-> IdleThread]
  /\ upload_folder = FALSE
  /\ disk = {}
  /\ next_uuid = 1
  /\ in_detector = {}
  /\ FileIdle /\ OcrIdle

\* One request at a time: any request of up to MaxFiles files.
Init == InitServer(1)

\* One step of thread r on the request it has received.
Serve(r) ==
  \/ BatchCheck(r)
  \/ BatchNext(r)
  \/ BatchRespond(r)
  \/ BatchSave(r)
  \/ SingleCheck(r)
  \/ SingleSave(r)
  \/ DetectorCall(r)
  \/ DetectorReturn(r)
  \/ Enhance(r)
  \/ Detector2Call(r)
  \/ Detector2Return(r)
  \/ FinallyExists(r)
  \/ FinallyRemove(r)

\* One step of thread r, its request drawn from `requests`.
Handle(r, requests) == Receive(r, requests) \/ Serve(r)

Next == \E r \in {1} : Handle(r, BatchRequests(MaxFiles) \cup SingleRequests)

Spec == Init /\ [][Next]_vars

\* Threads the development server runs at once (app.run serves each request
\* in a thread of its own).
NumThreads == 2

\* The requests of the concurrent runs: one allowed file to each endpoint.
ConcRequests ==
  { Request(e, TRUE, <<File(PngName)>>) : e \in {"batch", "augmented", "single"} }

InitConc == InitServer(NumThreads)

NextConc == \E r \in 1..NumThreads : Handle(r, ConcRequests)

\* Concurrent requests, their steps interleaved.
SpecConc == InitConc /\ [][NextConc]_vars

(* ------------------------------------------------- claims on the handlers *)

BatchThreads ==
  { r \in DOMAIN thread : thread[r].request.endpoint \in {"batch", "augmented"} }

\* The batch requests that passed the request-level checks: the well-formed ones.
InLoop(r) == r \in BatchThreads /\ thread[r].pc \notin {"idle", "batch_check"}
               /\ thread[r].response.status # 400

\* The thread is between taking an item and the end of its finally clause.
InFlight(r) ==
  thread[r].pc \in {"save", "single_save", "ocr", "in_ocr", "enhance", "ocr2",
                    "in_ocr2", "finally", "remove"}

\* What an item's own data say its outcome is: its name and what save, the
\* Detector and the transform returned to it.
ExpectedOutcome(endpoint, name, events) ==
  IF name \in {EmptyName, GifName}
  THEN [filename |-> IF name = EmptyName THEN Unknown ELSE name, text |-> <<>>,
        status |-> "error", error |-> "File type not allowed"]
  ELSE IF events[1].outcome # "saved"
  THEN [filename |-> name, text |-> <<>>, status |-> "error", error |-> SaveError]
  ELSE IF events[2].outcome = "raised"
  THEN [filename |-> name, text |-> <<>>, status |-> "error", error |-> DetectorError]
  ELSE IF endpoint = "batch"
  THEN [filename |-> name, text |-> process_ocr_result(events[2].value), status |-> "success"]
  ELSE IF events[3].outcome # "enhanced"
  THEN [filename |-> name, text |-> <<>>, status |-> "error", error |-> TransformError]
  ELSE IF events[4].outcome = "raised"
  THEN [filename |-> name, text |-> <<>>, status |-> "error", error |-> DetectorError]
  ELSE [filename |-> name, status |-> "success",
        text |-> process_ocr_result(events[4].value),
        original_text |-> process_ocr_result(events[2].value),
        variants |-> << [name |-> "Original",
                         word_count |-> WordCount(process_ocr_result(events[2].value))],
                        [name |-> "Grayscale + Threshold",
                         word_count |-> WordCount(process_ocr_result(events[4].value))] >>]

\* Something failed for the item with these events.
ItemFailed(name, events) ==
  \/ name \in {EmptyName, GifName}
  \/ \E k \in 1..Len(events) : events[k].outcome \in {"failed", "partial", "raised"}

\* C1 as stated: one outcome per input item, the i-th outcome carrying the i-th
\* item's name, whatever items fail.
C1_Original ==
  \A r \in DOMAIN thread :
    InLoop(r) /\ thread[r].pc = "done" =>
      LET t == thread[r]
      IN /\ t.response.status = 200
         /\ Len(t.response.results) = Len(t.request.files)
         /\ \A k \in 1..Len(t.request.files) :
              t.response.results[k].filename = t.request.files[k].filename

\* C1, amended: one outcome per input item, in input order; the i-th outcome
\* carries the i-th item's name, or 'Unknown' when that name is empty. While the
\* loop runs, the outcomes are those of the items before the current one.
C1_OneOutcomePerItem ==
  \A r \in DOMAIN thread :
    InLoop(r) =>
      LET t == thread[r]
          n == Len(t.request.files)
      IN /\ Len(t.results) <= n
         /\ t.pc = "loop" => Len(t.results) = t.idx - 1
         /\ InFlight(r) => Len(t.results) \in {t.idx - 1, t.idx}
         /\ \A k \in 1..Len(t.results) :
              t.results[k].filename =
                IF t.request.files[k].filename = <<>> THEN Unknown
                ELSE t.request.files[k].filename
         /\ t.pc = "done" =>
              /\ t.response.status = 200
              /\ t.response.results = t.results
              /\ Len(t.results) = n

\* A finished batch of three: an unnamed item, a failed item and a success.
C1_Witness ==
  \E r \in DOMAIN thread :
    /\ InLoop(r) /\ thread[r].pc = "done"
    /\ Len(thread[r].request.files) = 3
    /\ thread[r].request.files[1].filename = <<>>
    /\ thread[r].response.results[1].filename = Unknown
    /\ thread[r].response.results[2].status = "error"
    /\ thread[r].response.results[2].filename = PngName
    /\ thread[r].response.results[3].status = "success"

\* C2: in both batch handlers a failure while handling one item (save failure,
\* unreadable image, Detector exception, transform exception, unsupported file
\* type) is recorded as that item's error outcome with a message; the handler
\* goes on (outside a Detector call, which returns or raises, it always has a
\* next step until it has responded) and nothing propagates: it ends by
\* returning the results list, one outcome per item.
C2_FailuresStayInItem ==
  \A r \in DOMAIN thread :
    InLoop(r) =>
      LET t == thread[r]
      IN /\ \A k \in 1..Len(t.hist) :
              t.hist[k].finished /\ ItemFailed(t.hist[k].name, t.hist[k].events) =>
                /\ k <= Len(t.results)
                /\ t.results[k].status = "error"
                /\ t.results[k].error \in
                     {"File type not allowed", SaveError, DetectorError, TransformError}
         /\ t.pc \in {"in_ocr", "in_ocr2"} => r \in in_detector
         /\ t.pc \notin {"done", "in_ocr", "in_ocr2"} =>
              ENABLED (\/ BatchNext(r) \/ BatchRespond(r) \/ BatchSave(r)
                       \/ DetectorCall(r) \/ Enhance(r) \/ Detector2Call(r)
                       \/ FinallyExists(r) \/ FinallyRemove(r))
         /\ t.pc = "done" =>
              /\ t.response = JsonResults(t.results)
              /\ Len(t.results) = Len(t.request.files)
              /\ \A k \in 1..Len(t.hist) : t.hist[k].finished

\* A finished augmented batch whose first item failed in the transform, whose
\* second failed in save and whose third succeeded.
C2_Witness ==
  \E r \in DOMAIN thread :
    /\ InLoop(r) /\ thread[r].pc = "done"
    /\ thread[r].request.endpoint = "augmented"
    /\ Len(thread[r].results) = 3
    /\ thread[r].results[1].status = "error"
    /\ thread[r].results[1].error = TransformError
    /\ thread[r].results[2].status = "error"
    /\ thread[r].results[2].error = SaveError
    /\ thread[r].results[3].status = "success"

\* C3: for every item, on every exit path (success, save failure, Detector or
\* transform exception), the item's temp file is removed exactly once before
\* its outcome is returned: every creation of the file is paired with one
\* removal, and no temp file of a finished item remains.
C3_TempFileReleased ==
  \A r \in DOMAIN thread :
    \A k \in 1..Len(thread[r].hist) :
      LET h == thread[r].hist[k]
      IN h.finished =>
           /\ h.created <= 1
           /\ h.removed = h.created
           /\ h.path \notin disk

\* C4: no two in-flight items ever use the same temp path, and the file an
\* in-flight item has saved stays in place until that item's own finally clause.
C4_ExclusiveTempPath ==
  /\ \A r1, r2 \in DOMAIN thread :
       r1 # r2 /\ InFlight(r1) /\ InFlight(r2) =>
         thread[r1].filepath # thread[r2].filepath
  /\ \A r \in DOMAIN thread :
       thread[r].pc \in {"ocr", "in_ocr", "enhance", "ocr2", "in_ocr2"} =>
         thread[r].filepath \in disk

\* C5: an item's outcome depends only on the item's own name and on what save,
\* the Detector and the transform returned for it: in every batch, whatever the
\* other items are and whether they fail, each outcome is the one its own data
\* determine, and two items of a batch with the same data get the same outcome.
C5_OutcomeIsOwn ==
  \A r \in DOMAIN thread :
    InLoop(r) =>
      LET t == thread[r]
      IN /\ \A k \in 1..Len(t.results) :
              t.results[k] = ExpectedOutcome(t.request.endpoint,
                               t.request.files[k].filename, t.hist[k].events)
         /\ \A k1, k2 \in 1..Len(t.results) :
              /\ t.request.files[k1] = t.request.files[k2]
              /\ t.hist[k1].events = t.hist[k2].events
              => t.results[k1] = t.results[k2]

\* A finished batch where a succeeding item stands between two failing ones.
C5_Witness ==
  \E r \in DOMAIN thread :
    /\ InLoop(r) /\ thread[r].pc = "done"
    /\ Len(thread[r].results) = 3
    /\ thread[r].results[1].status = "error"
    /\ thread[r].results[1].error = DetectorError
    /\ thread[r].results[2].status = "success"
    /\ thread[r].results[2].text = <<"H","i"," ","W">>
    /\ thread[r].results[3].status = "error"

\* C10: in a batch, an item whose name is not on the allow-list ends in a
\* status:error outcome with the file-type message and is never processed: no
\* temp path, no save, no Detector call for it; the other items keep the outcome
\* their own data give them, and a 3-item batch with one .gif yields 3 outcomes.
C10_NotAllowedNeverProcessed ==
  \A r \in DOMAIN thread :
    InLoop(r) =>
      LET t == thread[r]
          files == t.request.files
      IN /\ \A k \in 1..Len(t.hist) :
              files[k].filename \in {EmptyName, GifName} =>
                /\ t.hist[k].path = NoPath
                /\ t.hist[k].saves = 0 /\ t.hist[k].created = 0
                /\ t.hist[k].detects = 0 /\ t.hist[k].events = <<>>
                /\ k <= Len(t.results)
                /\ t.results[k].status = "error"
                /\ t.results[k].error = "File type not allowed"
                /\ t.results[k].text = <<>>
         /\ InFlight(r) => files[t.idx].filename \notin {EmptyName, GifName}
         /\ \A p \in disk : p.filename \notin {EmptyName, GifName}
         /\ (t.pc = "done" /\ Len(files) = 3
               /\ Cardinality({k \in 1..3 : files[k].filename = GifName}) = 1) =>
              /\ Len(t.response.results) = 3
              /\ \A k \in 1..3 :
                   files[k].filename # GifName =>
                     t.response.results[k] =
                       ExpectedOutcome(t.request.endpoint, files[k].filename,
                                       t.hist[k].events)

\* A finished 3-item batch: a success, the .gif, a success.
C10_Witness ==
  \E r \in DOMAIN thread :
    /\ InLoop(r) /\ thread[r].pc = "done"
    /\ Len(thread[r].request.files) = 3
    /\ thread[r].request.files[2].filename = GifName
    /\ Len(thread[r].response.results) = 3
    /\ thread[r].response.results[1].status = "success"
    /\ thread[r].response.results[2].error = "File type not allowed"
    /\ thread[r].response.results[3].status = "success"

\* C11: a batch request is rejected as a whole (a 400 with no per-item
\* outcomes) exactly when it has no files field or every file has an empty name,
\* and this happens before any temp path is drawn, any file is saved or the
\* Detector is invoked; every other batch request ends with a 200 carrying the
\* list of per-item outcomes, whatever fails while it is processed.
C11_WholeRequestRejection ==
  \A r \in BatchThreads :
    LET t == thread[r]
        malformed == \/ ~t.request.has_field
                     \/ \A k \in 1..Len(t.request.files) :
                          t.request.files[k].filename = <<>>
    IN /\ malformed =>
            /\ t.hist = <<>> /\ t.results = <<>>
            /\ t.pc \in {"batch_check", "done"}
            /\ disk = {} /\ next_uuid = 1 /\ in_detector = {}
       /\ t.pc = "done" =>
            IF malformed
            THEN /\ t.response.status = 400
                 /\ DOMAIN t.response = {"status", "error"}
            ELSE /\ t.response.status = 200
                 /\ DOMAIN t.response = {"status", "results"}
                 /\ Len(t.response.results) = Len(t.request.files)

\* A rejected request of two unnamed files.
C11_Witness ==
  \E r \in BatchThreads :
    /\ thread[r].pc = "done"
    /\ Len(thread[r].request.files) = 2
    /\ thread[r].response = JsonError(400, "No files selected for uploading")

SingleThreads == { r \in DOMAIN thread : thread[r].request.endpoint = "single" }

\* C12: /ocr returns a success envelope carrying the text only when the file
\* passes validation and detection succeeds; a missing file, an empty or
\* unsupported name gives a 400, a failure while processing gives a 500, and
\* neither is ever a success envelope.
C12_SingleEnvelope ==
  \A r \in SingleThreads :
    LET t == thread[r]
        valid == /\ t.request.has_field
                 /\ t.request.files[1].filename = PngName
    IN t.pc = "done" =>
         /\ ~valid => t.response.status = 400 /\ t.hist = <<>> /\ disk = {}
         /\ valid /\ ItemFailed(PngName, t.hist[1].events) => t.response.status = 500
         /\ t.response.status \in {200, 400, 500}
         /\ t.response.status = 200 =>
              /\ valid
              /\ Len(t.hist[1].events) = 2
              /\ t.hist[1].events[1].outcome = "saved"
              /\ t.hist[1].events[2].outcome = "returned"
              /\ t.response = [status |-> 200,
                               text |-> process_ocr_result(t.hist[1].events[2].value)]
         /\ t.response.status # 200 => "text" \notin DOMAIN t.response

\* A request whose Detector call raised: a 500.
C12_Witness ==
  \E r \in SingleThreads :
    /\ thread[r].pc = "done"
    /\ thread[r].response.status = 500
    /\ Len(thread[r].hist[1].events) = 2
    /\ thread[r].hist[1].events[2].outcome = "raised"

AugmentedThreads ==
  { r \in DOMAIN thread : thread[r].request.endpoint = "augmented" }

\* C13: in augmented mode both variants are always attempted for an item whose
\* file was saved (no early exit), and when exactly one of the two Detector
\* invocations fails, the other variant's text is still in the item's outcome.
C13_VariantsIndependent ==
  \A r \in AugmentedThreads :
    \A k \in 1..Len(thread[r].hist) :
      LET h == thread[r].hist[k]
      IN h.finished /\ h.events # <<>> /\ h.events[1].outcome = "saved" =>
           /\ h.detects = 2
           /\ h.events[2].outcome = "returned" =>
                \E f \in DOMAIN thread[r].results[k] :
                  thread[r].results[k][f] = process_ocr_result(h.events[2].value)

\* C14: in augmented mode the identity text is computed first and the
\* enhancement (image read and threshold, then the Detector on the enhanced
\* image) is attempted only afterwards; if a step of the enhancement fails, the
\* item's one outcome is status:error with empty text and no original_text,
\* though the identity text had been computed.
C14_IdentityThenEnhancement ==
  \A r \in AugmentedThreads :
    LET t == thread[r]
    IN /\ \A k \in 1..Len(t.hist) :
            LET ev == t.hist[k].events
            IN /\ Len(ev) <= 4
               /\ \A n \in 1..Len(ev) :
                    /\ ev[n].call = <<"save", "detector", "transform", "detector">>[n]
                    /\ n > 1 => ev[n-1].outcome \in {"saved", "returned", "enhanced"}
               /\ (t.hist[k].finished /\ Len(ev) >= 3 /\ ev[Len(ev)].outcome = "raised") =>
                    /\ ev[2].outcome = "returned"
                    /\ DOMAIN t.results[k] = {"filename", "text", "status", "error"}
                    /\ t.results[k].status = "error"
                    /\ t.results[k].text = <<>>
                    /\ t.results[k].error \in {TransformError, DetectorError}
       /\ t.pc \in {"enhance", "ocr2", "in_ocr2"} =>
            LET ev == t.hist[Len(t.hist)].events
            IN /\ ev[2].outcome = "returned"
               /\ t.original_text = process_ocr_result(ev[2].value)
               /\ Len(t.results) = t.idx - 1

\* An item whose identity text was "Hi W" and whose second Detector call raised.
C14_Witness ==
  \E r \in AugmentedThreads :
    /\ Len(thread[r].hist) >= 1 /\ thread[r].hist[1].finished
    /\ Len(thread[r].hist[1].events) = 4
    /\ thread[r].hist[1].events[4].outcome = "raised"
    /\ process_ocr_result(thread[r].hist[1].events[2].value) = <<"H","i"," ","W">>
    /\ thread[r].results[1].status = "error"

\* C15: access to the Detector is serialized: at most one thread is inside
\* ocr_model.ocr at any time.
C15_DetectorSerialized == Cardinality(in_detector) <= 1

\* C16: on an augmented success outcome, text is the text of the enhanced image,
\* original_text the text of the unmodified image, never swapped, and the
\* variants are exactly Original and the enhanced one, in that order.
C16_EnhancedIsPrimary ==
  \A r \in AugmentedThreads :
    \A k \in 1..Len(thread[r].results) :
      LET o == thread[r].results[k]
          ev == thread[r].hist[k].events
      IN o.status = "success" =>
           /\ Len(ev) = 4 /\ ev[2].call = "detector" /\ ev[3].call = "transform"
           /\ ev[4].call = "detector"
           /\ o.original_text = process_ocr_result(ev[2].value)
           /\ o.text = process_ocr_result(ev[4].value)
           /\ Len(o.variants) = 2
           /\ o.variants[1].name = "Original"
           /\ o.variants[2].name = "Grayscale + Threshold"

\* A success whose enhanced image gave nothing and whose original gave "Hi W".
C16_Witness ==
  \E r \in AugmentedThreads :
    /\ Len(thread[r].results) >= 1
    /\ thread[r].results[1].status = "success"
    /\ thread[r].results[1].text = NoTextFound
    /\ thread[r].results[1].original_text = <<"H","i"," ","W">>

\* The whitespace-separated tokens of a text, counted at their last characters.
TokenCount(text) ==
  Cardinality({ k \in 1..Len(text) :
                  /\ text[k] \notin {" ", "\n"}
                  /\ (k = Len(text) \/ text[k+1] \in {" ", "\n"}) })

\* C17: each variant's word count is the number of non-empty whitespace-separated
\* tokens of that variant's text (3 for "No text found.", not 0), and nothing is
\* decided by it: an item succeeds exactly when its four external calls did, and
\* its text fields are those the Detector's returns give.
C17_WordCounts ==
  \A r \in AugmentedThreads :
    \A k \in 1..Len(thread[r].results) :
      LET o == thread[r].results[k]
          ev == thread[r].hist[k].events
      IN /\ o.status = "success" <=>
              /\ Len(ev) = 4
              /\ \A n \in 1..4 : ev[n].outcome \in {"saved", "returned", "enhanced"}
         /\ o.status = "success" =>
              /\ o.variants[1].word_count = TokenCount(o.original_text)
              /\ o.variants[2].word_count = TokenCount(o.text)
              /\ o.text = NoTextFound => o.variants[2].word_count = 3
              /\ o.original_text = NoTextFound => o.variants[1].word_count = 3
              /\ o.text = process_ocr_result(ev[4].value)
              /\ o.original_text = process_ocr_result(ev[2].value)

\* A success with 2 words in the original and the sentinel's 3 in the enhanced.
C17_Witness ==
  \E r \in AugmentedThreads :
    /\ Len(thread[r].results) >= 1
    /\ thread[r].results[1].status = "success"
    /\ thread[r].results[1].text = NoTextFound
    /\ thread[r].results[1].variants[1].word_count = 2
    /\ thread[r].results[1].variants[2].word_count = 3

(* ------------------------------------------- claims on the two pure helpers *)

\* The lines of a walk: the formatted ones and then the open one.
AllLines(w) ==
  w.line_members \o (IF w.current_line # <<>> THEN <<w.current_line>> ELSE <<>>)

\* The line (its number in AllLines) that holds entry k of text_coordinates.
LineOf(w, k) ==
  CHOOSE n \in 1..Len(AllLines(w)) :
    \E m \in 1..Len(AllLines(w)[n]) : AllLines(w)[n][m] = k

\* The parts with sep before every part but the first, built left to right.
Spaced(sep, parts) ==
  LET acc[k \in 0..Len(parts)] ==
        IF k = 0 THEN <<>>
        ELSE IF k = 1 THEN parts[1]
        ELSE acc[k-1] \o sep \o parts[k]
  IN acc[Len(parts)]

\* An empty detection: no result, no page, or a page without fragments.
EmptyDetection(r) ==
  \/ r.none
  \/ Len(r.items) = 0
  \/ r.items[1].none
  \/ Len(r.items[1].items) = 0

\* C6: process_ocr_result applied to an empty detection (no result, or a result
\* whose fragment set is empty or absent) returns the sentinel "No text found.",
\* never the empty string, and it does return (it can always take its step).
C6_EmptyGivesSentinel ==
  /\ (ocr_pc = "call" /\ EmptyDetection(result)) => ENABLED OcrEnter
  /\ (ocr_pc = "returned" /\ EmptyDetection(result)) =>
       /\ formatted_text = NoTextFound
       /\ formatted_text # <<>>
       /\ Len(formatted_text) = 14

C6_Witness ==
  ocr_pc = "returned" /\ result = List(<<List(<<>>)>>) /\ formatted_text = NoTextFound

\* C7: line grouping is step-wise chaining over the fragments sorted by
\* (anchorY, anchorX): at every step of the walk, a visited fragment is in the
\* line of the fragment before it in sorted order if and only if their anchorY
\* differ by at most 18 (the model's yy is twice anchorY). So consecutive members
\* of a line differ by at most 18, the last member of a line and the first of the
\* next by more than 18, and (100,"Hi"), (102,"W"), (140,"F") give "Hi W" then "F".
C7_StepwiseChaining ==
  ocr_pc \in {"loop", "returned"} /\ walk.i > 0 =>
    LET tc == walk.text_coordinates
    IN /\ \A k \in 1..(Len(tc) - 1) :
            \/ tc[k].yy < tc[k+1].yy
            \/ (tc[k].yy = tc[k+1].yy /\ tc[k].x <= tc[k+1].x)
       /\ \A k \in 1..(walk.i - 1) :
            (LineOf(walk, k+1) = LineOf(walk, k))
              <=> (tc[k+1].yy - tc[k].yy <= 2 * 18)
       /\ \A k \in 1..(walk.i - 1) :
            LineOf(walk, k+1) \in {LineOf(walk, k), LineOf(walk, k) + 1}
       /\ (/\ ocr_pc = "returned"
           /\ Len(result.items[1].items) = 3
           /\ {result.items[1].items[k] : k \in 1..3} =
                { Frag(50, 90, 110, <<"H","i">>), Frag(120, 92, 112, <<"W">>),
                  Frag(50, 130, 150, <<"F">>) })
            => formatted_text = <<"H","i"," ","W","\n","F">>

\* The drift case: a finished walk with one line whose anchors spread over more
\* than the threshold (100, 115, 130).
C7_Witness ==
  /\ ocr_pc = "returned" /\ walk.i = 3
  /\ Len(walk.line_members) = 1
  /\ walk.text_coordinates[3].yy - walk.text_coordinates[1].yy > 2 * 18

\* C8: for a non-empty fragment set, each line's texts are in non-decreasing
\* anchorX order, equal anchorX keeping the order of the clustering sort, joined
\* by exactly one space (empty texts kept); the lines are in the order they were
\* closed, joined by exactly one newline; and every fragment of an earlier line
\* has anchorY <= every fragment of a later line.
C8_LineFormat ==
  ocr_pc = "returned" /\ walk.i > 0 =>
    LET tc == walk.text_coordinates
        lines == walk.line_members
    IN /\ Len(walk.formatted_lines) = Len(lines)
       /\ \A n \in 1..Len(lines) :
            /\ \A m \in 1..(Len(lines[n]) - 1) :
                 \/ tc[lines[n][m]].x < tc[lines[n][m+1]].x
                 \/ /\ tc[lines[n][m]].x = tc[lines[n][m+1]].x
                    /\ lines[n][m] < lines[n][m+1]
            /\ walk.formatted_lines[n] =
                 Spaced(<<" ">>, [m \in 1..Len(lines[n]) |-> tc[lines[n][m]].text])
       /\ formatted_text = Spaced(<<"\n">>, walk.formatted_lines)
       /\ \A n1, n2 \in 1..Len(lines) :
            n1 < n2 =>
              \A m1 \in 1..Len(lines[n1]), m2 \in 1..Len(lines[n2]) :
                tc[lines[n1][m1]].yy <= tc[lines[n2][m2]].yy

\* Two lines, the second reordered by the anchorX sort and holding an empty text.
C8_Witness ==
  /\ ocr_pc = "returned" /\ walk.i = 3
  /\ walk.line_members = << <<1>>, <<3, 2>> >>
  /\ walk.text_coordinates[3].text = <<>>

\* Two characters that are the same letter, whatever their case.
SameLetter(a, b) ==
  a = b \/ \E k \in 1..26 : {a, b} = {Upper[k], LowerOf[k]}

\* C9: allowed_file accepts a name if and only if it contains a '.' and the text
\* after its last '.' is png, jpg or jpeg, compared case-insensitively.
C9_AllowedFile ==
  file_pc = "returned" =>
    (allowed <=>
       \E k \in 1..Len(filename) :
         /\ filename[k] = "."
         /\ \A m \in (k+1)..Len(filename) : filename[m] # "."
         /\ \E ext \in { <<"p","n","g">>, <<"j","p","g">>, <<"j","p","e","g">> } :
              /\ Len(ext) = Len(filename) - k
              /\ \A m \in 1..Len(ext) : SameLetter(filename[k+m], ext[m]))

\* An upper-case extension after a second dot is accepted.
C9_Witness ==
  file_pc = "returned" /\ allowed /\ filename = <<".", ".", "P", "n", "g">>

\* The input positions of the entries of text_coordinates: the one arrangement
\* of the input by (anchorY, anchorX) in which equal keys keep input order.
StableOrders(out, inp) ==
  { p \in [1..Len(out) -> 1..Len(inp)] :
      /\ \A j, k \in 1..Len(out) :
           j < k => \/ out[j].yy < out[k].yy
                    \/ out[j].yy = out[k].yy /\ out[j].x < out[k].x
                    \/ out[j].yy = out[k].yy /\ out[j].x = out[k].x /\ p[j] < p[k]
      /\ \A k \in 1..Len(out) : out[k] = inp[p[k]] }

\* C18: process_ocr_result gives one string for a fixed fragment set, because
\* both sorts are stable: text_coordinates is the input ordered by (anchorY,
\* anchorX) with equal keys in input order, each line is ordered by anchorX with
\* equal anchorX in the order of text_coordinates (so, for equal anchors, in
\* input order), and the returned string is the one the function computes from
\* the input alone.
C18_StableAndDeterministic ==
  (ocr_pc \in {"loop", "returned"} /\ ~NoDetection(result)) =>
    LET inp == TextCoordinates(result.items[1].items)
        tc == walk.text_coordinates
        lines == walk.line_members
    IN /\ Len(tc) = Len(inp)
       /\ StableOrders(tc, inp) # {}
       /\ \A p \in StableOrders(tc, inp) :
            \A n \in 1..Len(lines) : \A j, m \in 1..Len(lines[n]) :
              j < m =>
                LET a == lines[n][j]
                    b == lines[n][m]
                IN \/ tc[a].x < tc[b].x
                   \/ tc[a].x = tc[b].x /\ tc[a].yy < tc[b].yy
                   \/ tc[a].x = tc[b].x /\ tc[a].yy = tc[b].yy /\ p[a] < p[b]
       /\ ocr_pc = "returned" =>
            /\ formatted_text = process_ocr_result(result)
            /\ result = List(<<List(<<Frag(50, 90, 110, <<"H","i">>),
                                      Frag(50, 90, 110, <<"c">>)>>)>>)
                 => formatted_text = <<"H","i"," ","c">>
            /\ result = List(<<List(<<Frag(50, 90, 110, <<"c">>),
                                      Frag(50, 90, 110, <<"H","i">>)>>)>>)
                 => formatted_text = <<"c"," ","H","i">>

\* Two fragments with one anchor, given after a fragment that sorts behind them.
C18_Witness ==
  /\ ocr_pc = "returned"
  /\ result = List(<<List(<<Frag(120, 92, 112, <<"W">>),
                            Frag(50, 90, 110, <<"c">>),
                            Frag(50, 90, 110, <<"H","i">>)>>)>>)
  /\ formatted_text = <<"c"," ","H","i"," ","W">>

\* The number of fragments in the lines.
SumSizes(lines) ==
  LET acc[k \in 0..Len(lines)] == IF k = 0 THEN 0 ELSE acc[k-1] + Len(lines[k])
  IN acc[Len(lines)]

\* The places (line, position) at which entry k of text_coordinates is held.
Places(w, k) ==
  { nm \in (1..Len(AllLines(w))) \X (1..Len(w.text_coordinates)) :
      /\ nm[2] <= Len(AllLines(w)[nm[1]])
      /\ AllLines(w)[nm[1]][nm[2]] = k }

\* C19: process_ocr_result conserves fragments. During the walk every visited
\* fragment is in exactly one of the closed lines or the open line and nothing
\* else is; at the return the lines partition the input: every fragment is in
\* one line once, its text is a part of that line's string, the line sizes sum
\* to the number of input fragments, and no line is empty.
C19_Conservation ==
  (ocr_pc \in {"loop", "returned"} /\ ~NoDetection(result)) =>
    LET items == result.items[1].items
        tc == walk.text_coordinates
        lines == AllLines(walk)
    IN /\ Len(tc) = Len(items)
       /\ \A f \in Frags :
            Cardinality({ k \in 1..Len(tc) : tc[k] = TextCoordinate(f) })
              = Cardinality({ k \in 1..Len(items) :
                                TextCoordinate(items[k]) = TextCoordinate(f) })
       /\ \A k \in 1..walk.i : Cardinality(Places(walk, k)) = 1
       /\ \A k \in (walk.i + 1)..Len(tc) : Places(walk, k) = {}
       /\ \A n \in 1..Len(lines) : lines[n] # <<>>
       /\ SumSizes(lines) = walk.i
       /\ Len(walk.formatted_lines) = Len(walk.line_members)
       /\ \A n \in 1..Len(walk.line_members) :
            walk.formatted_lines[n] =
              Spaced(<<" ">>, [m \in 1..Len(walk.line_members[n]) |->
                                 tc[walk.line_members[n][m]].text])
       /\ ocr_pc = "loop" => walk.current_line # <<>>
       /\ ocr_pc = "returned" =>
            /\ walk.i = Len(items)
            /\ walk.current_line = <<>>
            /\ SumSizes(walk.line_members) = Len(items)
            /\ formatted_text = Spaced(<<"\n">>, walk.formatted_lines)

\* Three fragments returned as a line of two and a line of one.
C19_Witness ==
  /\ ocr_pc = "returned" /\ walk.i = 3
  /\ Len(walk.line_members) = 2
  /\ Len(walk.line_members[1]) = 2 /\ Len(walk.line_members[2]) = 1
  /\ Len(result.items[1].items) = 3

====
